---- MODULE Spec2Model ----
(***************************************************************************)
(* Itinerary scheduling engine of the trip planner                         *)
(* (src/agents/itinerary_planner.py, src/schemas/*.py).                    *)
(*                                                                         *)
(* Conventions                                                             *)
(*   - Python's None is the value None (-1); a value is "truthy" when it   *)
(*     is neither None nor 0, as in `x or y` and `if x:`.                  *)
(*   - ratings are kept in tenths (4.5 is 45), multiplicative factors in   *)
(*     tenths (1.3 is 13); int(...) of a positive product is \div.         *)
(*   - times are minutes from midnight.                                    *)
(*   - a POI's name is the set of the keywords the rules look for in it    *)
(*     ("sunrise", "sunset", "breakfast", "lunch").                        *)
(*   - a POI of a pool is identified by its position in the pool; the      *)
(*     code's list.remove(poi) removes the first element EQUAL to poi,     *)
(*     and is modelled that way.                                           *)
(***************************************************************************)
EXTENDS Integers, Sequences, FiniteSets, TLC

\* ------------------------------------------------------------------ bounds
MaxPool == 7
MaxDays == 2
MaxPlanPool == 3
MaxTripDays == 2
MaxVersion == 3
MaxDayPool == 3
MaxStops == 4
MaxCoord == 3
MaxTravelers == 3

\* --------------------------------------------------------- Python helpers
None == -1

Truthy(x) == x # None /\ x # 0

Range(s) == {s[i] : i \in 1..Len(s)}

Min(S) == CHOOSE m \in S : \A x \in S : m <= x

RECURSIVE SumSeq(_)
SumSeq(s) ==
    IF s = <<>> THEN 0 ELSE s[1] + SumSeq(Tail(s))

\* dict.get(key, default)
DictGet(d, key, default) ==
    IF key \in DOMAIN d THEN d[key] ELSE default

\* all sequences over S of length 0..n
BoundedSeq(S, n) == UNION {[1..k -> S] : k \in 0..n}

\* ------------------------------------------------------------- data model
POICategory ==
    {"restaurant", "attraction", "museum", "park", "shopping", "nightlife",
     "accommodation", "transport", "entertainment", "religious", "beach",
     "adventure"}

GroupType == {"solo", "family", "friends", "couple", "business"}

POI(name, category, rating, estimated_visit_duration, price_level, latitude) ==
    [name |-> name, category |-> category, rating |-> rating,
     estimated_visit_duration |-> estimated_visit_duration,
     price_level |-> price_level, latitude |-> latitude]

\* ---------------------------------------------------------- duration model
base_durations(category) ==
    CASE category = "restaurant"    -> 90
      [] category = "attraction"    -> 120
      [] category = "museum"        -> 150
      [] category = "park"          -> 90
      [] category = "shopping"      -> 120
      [] category = "nightlife"     -> 180
      [] category = "accommodation" -> 30
      [] category = "transport"     -> 15
      [] category = "entertainment" -> 180
      [] category = "religious"     -> 60
      [] category = "beach"         -> 180
      [] category = "adventure"     -> 240
      [] OTHER                      -> 120

\* in tenths
group_multipliers(group_type) ==
    CASE group_type = "family"   -> 13
      [] group_type = "couple"   -> 10
      [] group_type = "solo"     -> 8
      [] group_type = "friends"  -> 11
      [] group_type = "business" -> 9
      [] OTHER                   -> 10

\* in tenths; only evaluated for a truthy rating
rating_factor(rating) ==
    IF rating >= 45 THEN 12
    ELSE IF rating >= 40 THEN 11
    ELSE IF rating < 30 THEN 8
    ELSE 10

\* The `return int(duration)` of the code is indented under `if poi.rating:`,
\* so a POI with no (or a zero) rating falls off the end: None.
_estimate_visit_duration(poi, group_type) ==
    IF Truthy(poi.estimated_visit_duration)
    THEN poi.estimated_visit_duration
    ELSE IF Truthy(poi.rating)
         THEN (base_durations(poi.category) * group_multipliers(group_type)
                 * rating_factor(poi.rating)) \div 100
         ELSE None

\* poi.estimated_visit_duration or self._estimate_visit_duration(poi, g)
poi_duration(poi, group_type) ==
    IF Truthy(poi.estimated_visit_duration)
    THEN poi.estimated_visit_duration
    ELSE _estimate_visit_duration(poi, group_type)

\* ------------------------------------------------------------ DayAllocator
daily_time_budget == 420
meal_time_reserved == 120
buffer_minutes == 15
max_day_activities == 6
leftover_threshold == 4

available_time_no_meal == daily_time_budget

available_time == daily_time_budget - meal_time_reserved

day_is_full_at_seven(day_pois) == Len(day_pois) >= max_day_activities + 1

\* if len(day_pois) >= 6: break
day_is_full(day_pois) == Len(day_pois) >= max_day_activities

takes_leftover_below_seven(day_list) == Len(day_list) < max_day_activities + 1

\* if len(distributed[day]) < 4
takes_leftover(day_list) == Len(day_list) < leftover_threshold

\* remaining_pois.remove(poi): drops the first element equal to poi
RECURSIVE list_remove(_, _, _)
list_remove(pois, remaining, poi) ==
    IF remaining = <<>> THEN <<>>
    ELSE IF pois[Head(remaining)] = poi THEN Tail(remaining)
    ELSE <<Head(remaining)>> \o list_remove(pois, Tail(remaining), poi)

RECURSIVE remove_all(_, _, _)
remove_all(pois, remaining, pois_to_remove) ==
    IF pois_to_remove = <<>> THEN remaining
    ELSE remove_all(pois, list_remove(pois, remaining, pois[Head(pois_to_remove)]),
                    Tail(pois_to_remove))

\* the inner loop `for poi in remaining_pois` of one day; adding None to an
\* int raises TypeError
RECURSIVE fill_day(_, _, _, _, _)
fill_day(pois, remaining, i, day_pois, day_time_used) ==
    IF i > Len(remaining)
    THEN [raised |-> FALSE, day_pois |-> day_pois]
    ELSE LET poi == pois[remaining[i]]
             d == poi_duration(poi, "couple")
             buffer_time == IF day_pois # <<>> THEN buffer_minutes ELSE 0
             total_time_needed == d + buffer_time
         IN  IF d = None
             THEN [raised |-> TRUE, day_pois |-> day_pois]
             ELSE IF day_time_used + total_time_needed <= available_time
                  THEN IF day_is_full(Append(day_pois, remaining[i]))
                       THEN [raised |-> FALSE,
                             day_pois |-> Append(day_pois, remaining[i])]
                       ELSE fill_day(pois, remaining, i + 1,
                                     Append(day_pois, remaining[i]),
                                     day_time_used + total_time_needed)
                  ELSE fill_day(pois, remaining, i + 1, day_pois, day_time_used)

\* the loop `for day in range(num_days)`
RECURSIVE first_pass(_, _, _, _, _)
first_pass(pois, num_days, day, remaining, distributed) ==
    IF day >= num_days
    THEN [raised |-> FALSE, remaining |-> remaining, distributed |-> distributed]
    ELSE LET r == fill_day(pois, remaining, 1, <<>>, 0)
         IN  IF r.raised
             THEN [raised |-> TRUE, remaining |-> remaining,
                   distributed |-> distributed]
             ELSE first_pass(pois, num_days, day + 1,
                             remove_all(pois, remaining, r.day_pois),
                             distributed @@ (day :> r.day_pois))

\* the loop `for poi in remaining_pois` after the first pass
RECURSIVE leftover_pass(_, _, _, _)
leftover_pass(num_days, remaining, i, distributed) ==
    IF i > Len(remaining) THEN distributed
    ELSE LET open == {d \in 0..(num_days - 1) : takes_leftover(distributed[d])}
         IN  IF open = {}
             THEN leftover_pass(num_days, remaining, i + 1, distributed)
             ELSE leftover_pass(num_days, remaining, i + 1,
                      [distributed EXCEPT ![Min(open)] = Append(@, remaining[i])])

\* The empty dict, and a dict day -> list of pool positions.
EmptyDict == <<>>

\* Result: raised (a TypeError left the function), first and remaining (the
\* dict and the pool as they stand after the first pass), distributed (the
\* value returned).
_distribute_pois_across_days(pois, num_days) ==
    IF pois = <<>>
    THEN [raised |-> FALSE, first |-> EmptyDict, remaining |-> <<>>,
          distributed |-> EmptyDict]
    ELSE LET fp == first_pass(pois, num_days, 0, [i \in 1..Len(pois) |-> i],
                              EmptyDict)
         IN  IF fp.raised
             THEN [raised |-> TRUE, first |-> fp.distributed,
                   remaining |-> fp.remaining, distributed |-> EmptyDict]
             ELSE [raised |-> FALSE, first |-> fp.distributed,
                   remaining |-> fp.remaining,
                   distributed |-> leftover_pass(num_days, fp.remaining, 1,
                                                 fp.distributed)]

\* ------------------------------------------------------ SolarTimeEstimator
\* The trigonometry is not modelled: its outcome is the input. `ok` is FALSE
\* when math.acos raises (domain error); otherwise half_minutes is twice the
\* hour-angle offset 4*hour_angle in minutes, so that
\* sunrise = int(720 - offset) and sunset = int(720 + offset).
SolarRaw(ok, half_minutes) == [ok |-> ok, half_minutes |-> half_minutes]

min2(a, b) == IF a <= b THEN a ELSE b

max2(a, b) == IF a >= b THEN a ELSE b

clamp_from_above_only(lo, x, hi) == min2(x, hi)

\* max(lo, min(x, hi))
clamp(lo, x, hi) == max2(lo, min2(x, hi))

_calculate_sunrise_sunset(raw) ==
    IF raw.ok
    THEN [sunrise |-> clamp(300, (1440 - raw.half_minutes) \div 2, 420),
          sunset  |-> clamp(1020, (1440 + raw.half_minutes) \div 2, 1200)]
    ELSE [sunrise |-> 390, sunset |-> 1110]

\* -------------------------------------------------------- VisitTimingPolicy
Timing(time_category, start_minutes, reasoning) ==
    [time_category |-> time_category, start_minutes |-> start_minutes,
     reasoning |-> reasoning]

\* weather: Optional[WeatherInfo]
NoWeather == [present |-> FALSE, temperature_high |-> 0]

WeatherInfo(temperature_high) ==
    [present |-> TRUE, temperature_high |-> temperature_high]

_get_rule_based_timing_by_category(poi, weather, sunrise_minutes, sunset_minutes) ==
    IF poi.category = "religious"
    THEN Timing("EARLY_MORNING", 360, "Peaceful morning prayers")
    ELSE IF poi.category = "museum"
    THEN Timing("MORNING", 600, "Avoid afternoon crowds")
    ELSE IF poi.category = "restaurant"
    THEN Timing("EVENING", 1140, "Dinner time")
    ELSE IF poi.category = "shopping" /\ weather.present
            /\ weather.temperature_high > 30
    THEN Timing("EVENING", 1020, "Cooler evening shopping")
    ELSE IF poi.category = "shopping"
    THEN Timing("AFTERNOON", 840, "Good shopping hours")
    ELSE Timing("MORNING", 540, "Standard morning visit")

_get_rule_based_timing(poi, weather, sunrise_minutes, sunset_minutes) ==
    LET category == poi.category IN
    IF category \in {"beach", "park"} /\ "sunrise" \in poi.name
    THEN Timing("SUNRISE", sunrise_minutes - 30, "Best for sunrise viewing")
    ELSE IF category \in {"beach", "park"} /\ "sunset" \in poi.name
    THEN Timing("SUNSET", sunset_minutes - 60, "Perfect for sunset viewing")
    ELSE IF category = "religious"
    THEN Timing("EARLY_MORNING", 360, "Peaceful morning prayers")
    ELSE IF category = "museum"
    THEN Timing("MORNING", 600, "Avoid afternoon crowds")
    ELSE IF category = "restaurant"
    THEN IF "breakfast" \in poi.name
         THEN Timing("EARLY_MORNING", 480, "Breakfast time")
         ELSE IF "lunch" \in poi.name
         THEN Timing("AFTERNOON", 720, "Lunch time")
         ELSE Timing("EVENING", 1140, "Dinner time")
    ELSE IF category = "nightlife"
    THEN Timing("NIGHT", 1260, "Evening entertainment")
    ELSE IF category \in {"shopping", "market"}
    THEN IF weather.present /\ Truthy(weather.temperature_high)
            /\ weather.temperature_high > 30
         THEN Timing("EVENING", 1020, "Cooler evening shopping")
         ELSE Timing("AFTERNOON", 840, "Good shopping hours")
    ELSE IF category \in {"adventure", "amusement_park"}
    THEN Timing("MORNING", 540, "Full day adventure")
    ELSE Timing("MORNING", 540, "Standard morning visit")

\* The suggestion service. outcome: "raises" (any exception of the client
\* library, a timeout included), "none" (no response object or no text),
\* "blank" (text of white space only), "text". A text is kept as what the
\* parser's line loop extracts from it: the stripped value after the last
\* line starting with each label, "" when no line starts with it.
\* start_time is [kind, minutes]: "absent" (no line, or an empty value),
\* "hhmm" (two integers around one colon), "no_colon" (a non-empty value
\* without colon), "malformed" (a colon, but int() or the unpacking fails).
ServiceReply(outcome, time_category, start_time, reasoning) ==
    [outcome |-> outcome, time_category |-> time_category,
     start_time |-> start_time, reasoning |-> reasoning]

StartTime(kind, minutes) == [kind |-> kind, minutes |-> minutes]

NoStart == StartTime("absent", 0)

ServiceDown == ServiceReply("raises", "", NoStart, "")

\* Optional[str]: present is FALSE for None
_call_vertex_ai_keeps_error_text(reply) ==
    IF reply.outcome \in {"text", "raises"}
    THEN [present |-> TRUE, empty |-> FALSE, reply |-> reply]
    ELSE [present |-> FALSE, empty |-> TRUE, reply |-> reply]

_call_vertex_ai(reply) ==
    IF reply.outcome = "text"
    THEN [present |-> TRUE, empty |-> FALSE, reply |-> reply]
    ELSE IF reply.outcome = "blank"
    THEN [present |-> TRUE, empty |-> TRUE, reply |-> reply]
    ELSE [present |-> FALSE, empty |-> TRUE, reply |-> reply]

category_times(time_category, sunrise_minutes, sunset_minutes) ==
    CASE time_category = "SUNRISE"       -> sunrise_minutes - 30
      [] time_category = "EARLY_MORNING" -> 360
      [] time_category = "MORNING"       -> 540
      [] time_category = "AFTERNOON"     -> 780
      [] time_category = "SUNSET"        -> sunset_minutes - 60
      [] time_category = "EVENING"       -> 1080
      [] time_category = "NIGHT"         -> 1200
      [] OTHER                           -> 540

_parse_timing_response(response, sunrise_minutes, sunset_minutes) ==
    IF response.start_time.kind = "malformed"
    THEN Timing("MORNING", 540, "Default morning timing")
    ELSE IF response.start_time.kind = "hhmm"
    THEN Timing(response.time_category, response.start_time.minutes,
                response.reasoning)
    ELSE Timing(response.time_category,
                category_times(response.time_category, sunrise_minutes,
                               sunset_minutes),
                response.reasoning)

\* `if ai_response:` is false for None and for the empty string
_get_optimal_visit_time(poi, weather, raw, reply) ==
    LET sun == _calculate_sunrise_sunset(raw)
        ai_response == _call_vertex_ai(reply)
    IN  IF ai_response.present /\ ~ai_response.empty
        THEN _parse_timing_response(ai_response.reply, sun.sunrise, sun.sunset)
        ELSE _get_rule_based_timing(poi, weather, sun.sunrise, sun.sunset)

\* ------------------------------------------------------------ CostEstimator
base_costs(category) ==
    CASE category = "restaurant"    -> <<15, 30, 50, 80>>
      [] category = "attraction"    -> <<10, 20, 35, 60>>
      [] category = "museum"        -> <<8, 15, 25, 40>>
      [] category = "park"          -> <<0, 5, 10, 20>>
      [] category = "shopping"      -> <<20, 50, 100, 200>>
      [] category = "nightlife"     -> <<15, 30, 60, 100>>
      [] category = "accommodation" -> <<50, 100, 200, 400>>
      [] category = "transport"     -> <<2, 5, 15, 30>>
      [] category = "entertainment" -> <<10, 25, 45, 80>>
      [] category = "religious"     -> <<0, 5, 10, 20>>
      [] category = "beach"         -> <<0, 10, 20, 40>>
      [] category = "adventure"     -> <<20, 40, 80, 150>>
      [] OTHER                      -> <<10, 20, 35, 60>>

\* sequences are 1-based: category_costs[cost_index] of the code is
\* category_costs[cost_index + 1] here
_estimate_poi_cost_per_traveler(poi, number_of_travelers) ==
    base_costs(poi.category)[
        (IF Truthy(poi.price_level) THEN poi.price_level ELSE 2)]
      * number_of_travelers

_estimate_poi_cost(poi, number_of_travelers) ==
    LET category_costs == base_costs(poi.category)
        price_level == IF Truthy(poi.price_level) THEN poi.price_level ELSE 2
        cost_index == min2(price_level - 1, Len(category_costs) - 1)
        base_cost == category_costs[cost_index + 1]
    IN  IF poi.category \in {"restaurant", "entertainment", "accommodation"}
        THEN base_cost * number_of_travelers
        ELSE base_cost

_calculate_day_cost_without_last(items) ==
    SumSeq([i \in 1..(Len(items) - 1) |-> items[i].cost_estimate])

\* sum(item.cost_estimate or Decimal("0") for item in items)
_calculate_day_cost(items) ==
    SumSeq([i \in 1..Len(items) |->
              IF Truthy(items[i].cost_estimate) THEN items[i].cost_estimate
              ELSE 0])

_calculate_total_cost(daily_plans) ==
    SumSeq([i \in 1..Len(daily_plans) |-> daily_plans[i].total_estimated_cost])

\* ---------------------------------------------------------------- transport
\* maps_tool: Optional[MapsApiTool]. POIs lie on one meridian, latitude in
\* whole degrees. minutes_per_degree is the walking time the directions
\* service reports per degree between two POIs; None stands for a lookup
\* that raises or returns no route.
MapsTool(present, minutes_per_degree) ==
    [present |-> present, minutes_per_degree |-> minutes_per_degree]

NoMapsTool == MapsTool(FALSE, None)

NoLeg == [present |-> FALSE, duration_minutes |-> 0, cost |-> 0]

Abs(x) == IF x < 0 THEN -x ELSE x

\* great-circle distance of two points of one meridian, in degrees of arc
\* (the haversine value is 6371 km x this angle in radians)
_distance(coord1, coord2) == Abs(coord2 - coord1)

\* None when the lookup fails, returns nothing, or when TransportOption
\* rejects the leg (duration_minutes and distance_km must be > 0); walking
\* costs nothing
_calculate_transport(from_poi, to_poi, maps_tool) ==
    IF ~maps_tool.present \/ maps_tool.minutes_per_degree = None
    THEN NoLeg
    ELSE LET walking_duration ==
                 maps_tool.minutes_per_degree
                   * _distance(from_poi.latitude, to_poi.latitude)
         IN  IF walking_duration > 0
             THEN [present |-> TRUE, duration_minutes |-> walking_duration,
                   cost |-> 0]
             ELSE NoLeg

\* ----------------------------------------------------- DailyScheduleBuilder
TripRequest(duration_days, group_type, number_of_travelers) ==
    [duration_days |-> duration_days, group_type |-> group_type,
     number_of_travelers |-> number_of_travelers]

ItineraryItem(day, poi, start_time, end_time, estimated_duration, transport_to_next, cost_estimate) ==
    [day |-> day, poi |-> poi, start_time |-> start_time,
     end_time |-> end_time, estimated_duration |-> estimated_duration,
     transport_to_next |-> transport_to_next, cost_estimate |-> cost_estimate]

\* list.sort(key=...) is stable: insertion after the last element whose key
\* is not greater
RECURSIVE insert_sorted(_, _)
insert_sorted(sorted, x) ==
    IF sorted = <<>> THEN <<x>>
    ELSE IF sorted[Len(sorted)].optimal_start_minutes <= x.optimal_start_minutes
    THEN Append(sorted, x)
    ELSE Append(insert_sorted(SubSeq(sorted, 1, Len(sorted) - 1), x),
                sorted[Len(sorted)])

RECURSIVE sort_by_optimal_start(_)
sort_by_optimal_start(poi_timings) ==
    IF poi_timings = <<>> THEN <<>>
    ELSE insert_sorted(
             sort_by_optimal_start(SubSeq(poi_timings, 1, Len(poi_timings) - 1)),
             poi_timings[Len(poi_timings)])

\* env: what the collaborators answer during one build: replies[p] is the
\* suggestion service's reply for pool position p, raw the solar computation
poi_timings_of(pois, day_pois, weather, trip_request, env) ==
    [k \in 1..Len(day_pois) |->
        LET poi == pois[day_pois[k]]
            t == _get_optimal_visit_time(poi, weather, env.raw,
                                         env.replies[day_pois[k]])
        IN  [poi |-> day_pois[k],
             time_category |-> t.time_category,
             optimal_start_minutes |-> t.start_minutes,
             duration |-> poi_duration(poi, trip_request.group_type)]]

cutoff_at_22(current_time, category) ==
    current_time > 22 * 60 /\ category # "nightlife"

\* if current_time > 23 * 60 and poi.category.value != "nightlife": break
past_cutoff(current_time, category) ==
    current_time > 23 * 60 /\ category # "nightlife"

needs_lunch_break_any_category(start_time, lunch_break_added, category, has_previous, current_time) ==
    /\ start_time >= 12 * 60
    /\ ~lunch_break_added
    /\ has_previous
    /\ current_time < 12 * 60

\* the condition of the lunch block
needs_lunch_break(start_time, lunch_break_added, category, has_previous, current_time) ==
    /\ start_time >= 12 * 60
    /\ ~lunch_break_added
    /\ category # "restaurant"
    /\ has_previous
    /\ current_time < 12 * 60

start_ignoring_previous(optimal_start, current_time) == optimal_start

start_without_buffer(optimal_start, current_time) ==
    max2(optimal_start, current_time)

\* the start of a subsequent activity, before the lunch block
start_after_previous(optimal_start, current_time) ==
    LET min_start_after_previous == current_time + 15
    IN  IF optimal_start > min_start_after_previous + 120
        THEN optimal_start
        ELSE max2(optimal_start, min_start_after_previous)

\* the scheduling loop; has_previous is `current_time is not None`.
\* start + None raises TypeError; ItineraryItem rejects a duration <= 0.
\* log keeps, per iteration, the values of the loop's local variables: the
\* clock on entry, the start time chosen before the lunch block, whether the
\* lunch block ran, and the travel time added to the clock.
RECURSIVE schedule(_, _, _, _, _, _, _, _, _, _, _)
schedule(pois, poi_timings, i, has_previous, current_time, lunch_break_added, items, day_num, trip_request, maps_tool, log) ==
    IF i > Len(poi_timings)
    THEN [raised |-> FALSE, items |-> items, log |-> log]
    ELSE
    LET pt == poi_timings[i]
        poi == pois[pt.poi]
        optimal_start == pt.optimal_start_minutes
        start_0 ==
            IF ~has_previous THEN optimal_start
            ELSE start_after_previous(optimal_start, current_time)
        lunch == needs_lunch_break(start_0, lunch_break_added, poi.category,
                                   has_previous, current_time)
        lunch_start == max2(current_time + 15, 12 * 60)
        start_time == IF lunch THEN max2(start_0, lunch_start + 60) ELSE start_0
        end_time == start_time + pt.duration
        has_next == i < Len(poi_timings) /\ maps_tool.present
        transport_to_next ==
            IF has_next
            THEN _calculate_transport(poi, pois[poi_timings[i + 1].poi], maps_tool)
            ELSE NoLeg
        travel_time ==
            IF has_next
            THEN (IF transport_to_next.present
                  THEN transport_to_next.duration_minutes ELSE 15)
            ELSE 0
        item == ItineraryItem(day_num, pt.poi, start_time, end_time,
                              pt.duration, transport_to_next,
                              _estimate_poi_cost(poi, trip_request.number_of_travelers))
        entry == [optimal_start |-> optimal_start,
                  has_previous |-> has_previous,
                  current_time |-> current_time,
                  start_before_lunch |-> start_0,
                  lunch |-> lunch,
                  travel_time |-> travel_time]
    IN  IF pt.duration = None \/ pt.duration <= 0
        THEN [raised |-> TRUE, items |-> items, log |-> log]
        ELSE IF past_cutoff(end_time + travel_time, poi.category)
        THEN [raised |-> FALSE, items |-> Append(items, item),
              log |-> Append(log, entry)]
        ELSE schedule(pois, poi_timings, i + 1, TRUE, end_time + travel_time,
                      lunch_break_added \/ lunch, Append(items, item),
                      day_num, trip_request, maps_tool, Append(log, entry))

_create_day_items(pois, day_num, day_pois, weather, trip_request, maps_tool, env) ==
    IF day_pois = <<>> THEN [raised |-> FALSE, items |-> <<>>, log |-> <<>>]
    ELSE schedule(pois,
                  sort_by_optimal_start(
                      poi_timings_of(pois, day_pois, weather, trip_request, env)),
                  1, FALSE, 0, FALSE, <<>>, day_num, trip_request, maps_tool,
                  <<>>)

DayPlan(day, items, weather) ==
    [day |-> day, items |-> items, weather |-> weather,
     total_estimated_cost |-> _calculate_day_cost(items)]

days_to_plan_one_short(trip_request) == trip_request.duration_days - 1

\* range(trip_request.duration_days)
days_to_plan(trip_request) == trip_request.duration_days

RECURSIVE daily_plans_from(_, _, _, _, _, _, _, _)
daily_plans_from(pois, pois_per_day, day_num, trip_request, weather_data, maps_tool, env, daily_plans) ==
    IF day_num >= days_to_plan(trip_request)
    THEN [raised |-> FALSE, alloc |-> EmptyDict, daily_plans |-> daily_plans]
    ELSE LET day_weather == IF day_num < Len(weather_data)
                            THEN weather_data[day_num + 1] ELSE NoWeather
             day_pois == DictGet(pois_per_day, day_num, <<>>)
             r == _create_day_items(pois, day_num + 1, day_pois, day_weather,
                                    trip_request, maps_tool, env)
         IN  IF r.raised
             THEN [raised |-> TRUE, alloc |-> EmptyDict, daily_plans |-> daily_plans]
             ELSE daily_plans_from(pois, pois_per_day, day_num + 1,
                                   trip_request, weather_data, maps_tool, env,
                                   Append(daily_plans,
                                          DayPlan(day_num + 1, r.items, day_weather)))

\* the loop over the days, once the allocator has returned a
plans_of_allocation(a, trip_request, pois, weather_data, maps_tool, env) ==
    IF a.raised
    THEN [raised |-> TRUE, alloc |-> a, daily_plans |-> <<>>]
    ELSE [daily_plans_from(pois, a.distributed, 0, trip_request, weather_data,
                           maps_tool, env, <<>>)
          EXCEPT !.alloc = a]

\* Result: raised, the allocator's result (kept for the properties), and the
\* day plans.
_create_daily_plans(trip_request, pois, weather_data, maps_tool, env) ==
    plans_of_allocation(
        _distribute_pois_across_days(pois, trip_request.duration_days),
        trip_request, pois, weather_data, maps_tool, env)

\* ---------------------------------------------------------------- Itinerary
Itinerary(id, trip_request, days, total_cost, version) ==
    [id |-> id, trip_request |-> trip_request, days |-> days,
     total_cost |-> total_cost, version |-> version]

NoTrip == TripRequest(0, "couple", 1)

NoItinerary == Itinerary("", NoTrip, <<>>, 0, 0)

validate_days_at_least(days, trip_request) ==
    Len(days) >= trip_request.duration_days

\* @validator('days'): TRUE when the value is accepted
validate_days(days, trip_request) == Len(days) = trip_request.duration_days

\* _apply_enhancements rebuilds every DayPlan with the same day, items,
\* weather and cost, and the Itinerary with the same id, cost and version;
\* only notes and metadata (not modelled) may differ
_enhance_itinerary_with_ai(itinerary) ==
    Itinerary(itinerary.id, itinerary.trip_request,
              [i \in 1..Len(itinerary.days) |->
                  [day |-> itinerary.days[i].day,
                   items |-> itinerary.days[i].items,
                   weather |-> itinerary.days[i].weather,
                   total_estimated_cost |-> itinerary.days[i].total_estimated_cost]],
              itinerary.total_cost, itinerary.version)

AgentResponse(success, itinerary) ==
    [success |-> success, itinerary |-> itinerary]

\* the Itinerary built from the day plans r, enhanced, in a success response;
\* every exception ends in the except branch: success=False
response_of_plans(r, trip_request) ==
    IF r.raised \/ ~validate_days(r.daily_plans, trip_request)
    THEN [response |-> AgentResponse(FALSE, NoItinerary), alloc |-> r.alloc]
    ELSE [response |->
              AgentResponse(TRUE,
                  _enhance_itinerary_with_ai(
                      Itinerary("itinerary-1", trip_request, r.daily_plans,
                                _calculate_total_cost(r.daily_plans), 1))),
          alloc |-> r.alloc]

create_itinerary(trip_request, pois, weather_data, maps_tool, env) ==
    response_of_plans(
        _create_daily_plans(trip_request, pois, weather_data, maps_tool, env),
        trip_request)

\* ------------------------------------------------------------ RouteSequencer
nearest_highest_index(unvisited, coordinates, current) ==
    CHOOSE x \in unvisited :
        \A y \in unvisited :
            \/ _distance(coordinates[current], coordinates[x])
                  < _distance(coordinates[current], coordinates[y])
            \/ /\ _distance(coordinates[current], coordinates[x])
                     = _distance(coordinates[current], coordinates[y])
               /\ x >= y

\* min(unvisited, key=...) returns the first minimal element met; a set of
\* small integers is iterated in increasing order
nearest(unvisited, coordinates, current) ==
    Min({x \in unvisited :
           \A y \in unvisited :
              _distance(coordinates[current], coordinates[x])
                <= _distance(coordinates[current], coordinates[y])})

RECURSIVE nn_route(_, _, _, _)
nn_route(coordinates, unvisited, current, route) ==
    IF unvisited = {} THEN route
    ELSE LET n == nearest(unvisited, coordinates, current)
         IN  nn_route(coordinates, unvisited \ {n}, n, Append(route, n))

_nearest_neighbor_tsp_without_start(coordinates) ==
    nn_route(coordinates, (1..Len(coordinates)) \ {1}, 1, <<>>)

\* indices are 1-based here: index k stands for the code's k - 1
_nearest_neighbor_tsp(coordinates) ==
    IF Len(coordinates) <= 1 THEN [i \in 1..Len(coordinates) |-> i]
    ELSE nn_route(coordinates, (1..Len(coordinates)) \ {1}, 1, <<1>>)

_optimize_daily_route_reversed(pois, items) ==
    [k \in 1..Len(items) |-> items[Len(items) + 1 - k]]

_optimize_daily_route(pois, items) ==
    IF Len(items) <= 2 THEN items
    ELSE LET coordinates == [i \in 1..Len(items) |-> pois[items[i].poi].latitude]
             optimized_order == _nearest_neighbor_tsp(coordinates)
         IN  [k \in 1..Len(optimized_order) |-> items[optimized_order[k]]]

_update_transport_info_without_last(pois, items, maps_tool) ==
    [i \in 1..(Len(items) - 1) |->
        [items[i] EXCEPT !.transport_to_next = NoLeg]]

\* item.copy() with transport_to_next replaced
_update_transport_info(pois, items, maps_tool) ==
    [i \in 1..Len(items) |->
        [items[i] EXCEPT !.transport_to_next =
            IF i < Len(items)
            THEN _calculate_transport(pois[items[i].poi],
                                      pois[items[i + 1].poi], maps_tool)
            ELSE NoLeg]]

optimize_day(pois, day_plan, maps_tool) ==
    IF Len(day_plan.items) <= 1 THEN day_plan
    ELSE DayPlan(day_plan.day,
                 _update_transport_info(pois,
                     _optimize_daily_route(pois, day_plan.items), maps_tool),
                 day_plan.weather)

\* The objects of the input after the call. optimize_itinerary builds new
\* lists, DayPlans and a new Itinerary; the only writes are those of
\* _update_transport_info, to the object item.copy() returns.
item_alias(item) == [shares_input |-> TRUE, value |-> item]

\* updated_item = item.copy(): a new object with the item's field values
item_copy(item) == [shares_input |-> FALSE, value |-> item]

\* items: the list handed to _update_transport_info; the result is the state
\* of those same objects once it has returned
items_after_update(pois, items, maps_tool) ==
    [i \in 1..Len(items) |->
        IF item_copy(items[i]).shares_input
        THEN _update_transport_info(pois, items, maps_tool)[i]
        ELSE items[i]]

\* the day's own list keeps its order; each position shows its object's state
input_day_after(pois, day_plan, maps_tool) ==
    IF Len(day_plan.items) <= 1 THEN day_plan
    ELSE [day_plan EXCEPT !.items =
            [j \in 1..Len(day_plan.items) |->
                CHOOSE x \in Range(items_after_update(pois,
                                       _optimize_daily_route(pois, day_plan.items),
                                       maps_tool)) :
                    x.poi = day_plan.items[j].poi]]

input_after_optimize(pois, itinerary, maps_tool) ==
    [itinerary EXCEPT !.days =
        [i \in 1..Len(itinerary.days) |->
            input_day_after(pois, itinerary.days[i], maps_tool)]]

optimize_itinerary_keeps_version(pois, itinerary, maps_tool) ==
    AgentResponse(TRUE,
        Itinerary(itinerary.id, itinerary.trip_request,
                  [i \in 1..Len(itinerary.days) |->
                      optimize_day(pois, itinerary.days[i], maps_tool)],
                  itinerary.total_cost, itinerary.version))

optimize_itinerary(pois, itinerary, maps_tool) ==
    LET optimized_days ==
            [i \in 1..Len(itinerary.days) |->
                optimize_day(pois, itinerary.days[i], maps_tool)]
    IN  IF validate_days(optimized_days, itinerary.trip_request)
        THEN AgentResponse(TRUE,
                 Itinerary(itinerary.id, itinerary.trip_request, optimized_days,
                           _calculate_total_cost(optimized_days),
                           itinerary.version + 1))
        ELSE AgentResponse(FALSE, NoItinerary)

\* ------------------------------------------- PlaceFinderAgent: enhancement
\* A POI as the discovery collaborator holds it. Of a text only its length
\* is kept: description is [present, length], present FALSE for None.
\* rating and popularity_score are in tenths; review_count is a multiple of
\* 10, so that review_count / 100 is a whole number of tenths.
Description(present, length) == [present |-> present, length |-> length]

NoDescription == Description(FALSE, 0)

FoundPOI(description, category, rating, estimated_visit_duration, price_level, review_count, popularity_score) ==
    [description |-> description, category |-> category, rating |-> rating,
     estimated_visit_duration |-> estimated_visit_duration,
     price_level |-> price_level, review_count |-> review_count,
     popularity_score |-> popularity_score]

\* the fields of the TripRequest the enhancement reads; an interest is kept
\* as the set of keywords that occur in its lower-cased text
BudgetRange == {"budget", "moderate", "luxury", "premium"}

PlaceRequest(group_type, budget_range, special_interests) ==
    [group_type |-> group_type, budget_range |-> budget_range,
     special_interests |-> special_interests]

\* the description service: outcome "raises", "none" (no response or no
\* text) or "text"; length is that of the stripped text, quotes the number
\* of double quotes in it
DescriptionReply(outcome, length, quotes) ==
    [outcome |-> outcome, length |-> length, quotes |-> quotes]

\* PlaceFinderAgent._call_vertex_ai: Optional[str], present FALSE for None
place_finder_call_vertex_ai(reply) ==
    IF reply.outcome = "text"
    THEN [present |-> TRUE, length |-> reply.length, quotes |-> reply.quotes]
    ELSE [present |-> FALSE, length |-> 0, quotes |-> 0]

_estimate_visit_duration_by_category(category, group_type, rating) ==
    LET base_duration ==
            CASE category = "restaurant"    -> 90
              [] category = "attraction"    -> 120
              [] category = "museum"        -> 180
              [] category = "park"          -> 90
              [] category = "shopping"      -> 120
              [] category = "nightlife"     -> 150
              [] category = "accommodation" -> 30
              [] category = "transport"     -> 15
              [] category = "entertainment" -> 180
              [] category = "religious"     -> 60
              [] category = "beach"         -> 180
              [] category = "adventure"     -> 240
              [] OTHER                      -> 120
        group_multiplier ==
            CASE group_type = "family"   -> 13
              [] group_type = "couple"   -> 10
              [] group_type = "solo"     -> 8
              [] group_type = "friends"  -> 11
              [] group_type = "business" -> 9
              [] OTHER                   -> 10
        rating_multiplier ==
            IF rating >= 45 THEN 12
            ELSE IF rating >= 40 THEN 11
            ELSE IF rating < 30 THEN 8
            ELSE 10
    IN  (base_duration * group_multiplier * rating_multiplier) \div 100

category_keywords(category) ==
    CASE category = "restaurant" -> {"food", "dining", "cuisine"}
      [] category = "museum"     -> {"culture", "history", "art"}
      [] category = "park"       -> {"nature", "outdoor", "relaxation"}
      [] category = "attraction" -> {"sightseeing", "tourist", "landmark"}
      [] category = "shopping"   -> {"shopping", "market", "souvenir"}
      [] category = "religious"  -> {"spiritual", "temple", "church"}
      [] category = "beach"      -> {"beach", "water", "swimming"}
      [] category = "adventure"  -> {"adventure", "sports", "thrill"}
      [] OTHER                   -> {}

\* in tenths of a point
_calculate_priority_score(poi, trip_request) ==
    LET rating_score == IF Truthy(poi.rating) THEN poi.rating * 15 ELSE 0
        review_score ==
            IF Truthy(poi.review_count)
            THEN min2(poi.review_count \div 10, 100) ELSE 0
        matching ==
            {k \in 1..Len(trip_request.special_interests) :
                trip_request.special_interests[k]
                    \cap category_keywords(poi.category) # {}}
        price_score ==
            IF Truthy(poi.price_level)
               /\ \/ trip_request.budget_range = "budget" /\ poi.price_level <= 2
                  \/ trip_request.budget_range = "luxury" /\ poi.price_level >= 3
                  \/ trip_request.budget_range = "mid-range" /\ poi.price_level = 2
            THEN 50 ELSE 0
    IN  min2(rating_score + review_score + 100 * Cardinality(matching)
               + price_score, 1000)

\* poi.description = ai_description.strip().replace('"', '')
with_description(poi, ai_description) ==
    IF (~poi.description.present \/ poi.description.length = 0
          \/ poi.description.length < 50)
       /\ ai_description.present /\ ai_description.length > 20
    THEN [poi EXCEPT !.description =
             Description(TRUE, ai_description.length - ai_description.quotes)]
    ELSE poi

\* poi.estimated_visit_duration = ...(category, group_type, rating or 3.0)
with_visit_duration(poi, trip_request) ==
    IF ~Truthy(poi.estimated_visit_duration)
    THEN [poi EXCEPT !.estimated_visit_duration =
             _estimate_visit_duration_by_category(
                 poi.category, trip_request.group_type,
                 IF Truthy(poi.rating) THEN poi.rating ELSE 30)]
    ELSE poi

with_popularity_score(poi, trip_request) ==
    [poi EXCEPT !.popularity_score = _calculate_priority_score(poi, trip_request)]

\* The three assignments are made to the attributes of the argument, and
\* `return poi` hands back that same object: `poi` is the argument's value
\* after the call, `returned_is_argument` tells that the value returned is
\* the argument object, no copy of it. (The except branch returns the
\* argument as well.)
_enhance_poi_details(poi, trip_request, reply) ==
    LET enhanced ==
            with_popularity_score(
                with_visit_duration(
                    with_description(poi, place_finder_call_vertex_ai(reply)),
                    trip_request),
                trip_request)
    IN  [poi |-> enhanced, returned |-> enhanced, returned_is_argument |-> TRUE]

\* ------------------------------------------------------------------- state
\* pc                      which operation has run
\* pois, num_days, alloc   the allocator's arguments and its result
\* dq, dur                 the duration model's arguments and its result
\* tq, timing              the timing policy's arguments, the service's
\*                         reply, and the triple returned
\* trip, weather_data,    create_itinerary's arguments (with pois), what the
\*   maps_tool, env        collaborators answered during the build,
\* response, itinerary    the last AgentResponse and the current Itinerary
\* input                  the Itinerary object handed to the last
\*                        optimize_itinerary call: as it was before the
\*                        call and as it is after it
\* day_result             the day built by the last _create_day_items call:
\*                        its number, the POIs it was given, and the result
\* sequencer              the coordinates handed to the route sequencer, the
\*                        route returned, and the order it gave the items
\* costing                the arguments of the last _estimate_poi_cost call
\*                        and the cost returned
\* solar                  the outcome of the trigonometry of the last
\*                        _calculate_sunrise_sunset call and the pair returned
\* enhancing              the last _enhance_poi_details call: the POI object
\*                        handed in as it was before and as it is after the
\*                        call, and the POI returned
\* attempt                the day plans handed to the last direct
\*                        construction of an Itinerary, and its outcome
VARIABLES pc, pois, num_days, alloc, dq, dur, tq, timing,
          trip, weather_data, maps_tool, env, response, itinerary, input,
          day_result, sequencer, costing, solar, enhancing, attempt

vars == <<pc, pois, num_days, alloc, dq, dur, tq, timing,
          trip, weather_data, maps_tool, env, response, itinerary, input,
          day_result, sequencer, costing, solar, enhancing, attempt>>

unit_vars == <<costing, solar, enhancing, attempt>>

plan_vars == <<trip, weather_data, maps_tool, env, response, itinerary, input,
               day_result, sequencer>>

NoAlloc ==
    [raised |-> FALSE, first |-> EmptyDict, remaining |-> <<>>,
     distributed |-> EmptyDict]

NoPOI == POI({}, "attraction", None, None, None, 0)

NoDurationQuery == [poi |-> NoPOI, group_type |-> "couple"]

NoTiming == Timing("", 0, "")

NoTimingQuery ==
    [poi |-> NoPOI, weather |-> NoWeather, raw |-> SolarRaw(FALSE, 0),
     reply |-> ServiceDown]

AllocIdle == pois = <<>> /\ num_days = 1 /\ alloc = NoAlloc

DurationIdle == dq = NoDurationQuery /\ dur = None

TimingIdle == tq = NoTimingQuery /\ timing = NoTiming

NoEnv == [raw |-> SolarRaw(FALSE, 0), replies |-> <<>>]

NoResponse == AgentResponse(FALSE, NoItinerary)

NoInput == [before |-> NoItinerary, after |-> NoItinerary]

NoDayResult ==
    [day |-> 0, day_pois |-> <<>>, raised |-> FALSE, items |-> <<>>,
     log |-> <<>>]

NoSequencing == [coordinates |-> <<>>, route |-> <<>>, items |-> <<>>]

SequencerIdle == sequencer = NoSequencing

NoCosting == [poi |-> NoPOI, number_of_travelers |-> 1, cost |-> None]

NoSun == [sunrise |-> 0, sunset |-> 0]

NoSolar == [raw |-> SolarRaw(FALSE, 0), sun |-> NoSun]

NoFoundPOI == FoundPOI(NoDescription, "attraction", None, None, None, 0, None)

NoEnhancing ==
    [before |-> NoFoundPOI,
     trip_request |-> PlaceRequest("couple", "budget", <<>>),
     reply |-> DescriptionReply("none", 0, 0),
     poi |-> NoFoundPOI, returned |-> NoFoundPOI,
     returned_is_argument |-> FALSE]

NoAttempt == [days |-> <<>>, raised |-> FALSE, itinerary |-> NoItinerary]

UnitIdle ==
    /\ costing = NoCosting
    /\ solar = NoSolar
    /\ enhancing = NoEnhancing
    /\ attempt = NoAttempt

PlanIdle ==
    /\ trip = NoTrip
    /\ weather_data = <<>>
    /\ maps_tool = NoMapsTool
    /\ env = NoEnv
    /\ response = NoResponse
    /\ itinerary = NoItinerary
    /\ input = NoInput
    /\ day_result = NoDayResult

\* the variables of the other specifications, at rest
OthersIdle ==
    /\ AllocIdle
    /\ DurationIdle
    /\ TimingIdle
    /\ PlanIdle
    /\ SequencerIdle

\* POIs the allocator is exercised with: a 30-minute override, a rated
\* religious venue (60 minutes for a couple), a rated museum (150 minutes),
\* an unrated attraction (no duration: None).
AllocPOIs ==
    {POI({}, "attraction", 40, 30, None, 0),
     POI({}, "religious", 35, None, None, 0),
     POI({}, "museum", 35, None, None, 0),
     POI({}, "attraction", None, None, None, 0)}

\* ------------------------------------------- specification: the allocator
InitAlloc ==
    /\ pc = "alloc_ready"
    /\ pois \in BoundedSeq(AllocPOIs, MaxPool)
    /\ num_days \in 1..MaxDays
    /\ alloc = NoAlloc
    /\ DurationIdle
    /\ TimingIdle
    /\ PlanIdle
    /\ SequencerIdle
    /\ UnitIdle

Distribute ==
    /\ pc = "alloc_ready"
    /\ alloc' = _distribute_pois_across_days(pois, num_days)
    /\ pc' = IF alloc'.raised THEN "alloc_raised" ELSE "alloc_done"
    /\ UNCHANGED <<pois, num_days, dq, dur, tq, timing>>
    /\ UNCHANGED plan_vars
    /\ UNCHANGED unit_vars

NextAlloc == Distribute

SpecAlloc == InitAlloc /\ [][NextAlloc]_vars

Spec == SpecAlloc

\* --------------------------------------- specification: the duration model
Ratings == {None, 0, 25, 29, 30, 35, 39, 40, 44, 45, 50}

DurationOverrides == {None, 0, 45}

InitDuration ==
    /\ pc = "duration_ready"
    /\ dq \in [poi : {POI({}, c, r, o, None, 0) :
                        c \in POICategory, r \in Ratings,
                        o \in DurationOverrides},
               group_type : GroupType]
    /\ dur = None
    /\ AllocIdle
    /\ TimingIdle
    /\ PlanIdle
    /\ SequencerIdle
    /\ UnitIdle

EstimateVisitDuration ==
    /\ pc = "duration_ready"
    /\ dur' = _estimate_visit_duration(dq.poi, dq.group_type)
    /\ pc' = "duration_done"
    /\ UNCHANGED <<pois, num_days, alloc, dq, tq, timing>>
    /\ UNCHANGED plan_vars
    /\ UNCHANGED unit_vars

NextDuration == EstimateVisitDuration

SpecDuration == InitDuration /\ [][NextDuration]_vars

\* ---------------------------------------- specification: the timing policy
Names ==
    {{}, {"sunrise"}, {"sunset"}, {"sunrise", "sunset"}, {"breakfast"},
     {"lunch"}, {"breakfast", "lunch"}}

Weathers == {NoWeather, WeatherInfo(30), WeatherInfo(31)}

\* arccos fails; a short, an ordinary and a long day
SolarRaws ==
    {SolarRaw(FALSE, 0), SolarRaw(TRUE, 401), SolarRaw(TRUE, 700),
     SolarRaw(TRUE, 1100)}

TimeCategories ==
    {"SUNRISE", "EARLY_MORNING", "MORNING", "AFTERNOON", "SUNSET", "EVENING",
     "NIGHT"}

\* replies: the service fails, answers nothing, or answers a text holding
\* any of the three labelled lines, well-formed or not
ServiceReplies ==
    {ServiceReply(o, "", NoStart, "") : o \in {"raises", "none", "blank"}}
    \cup {ServiceReply("text", c, st, r) :
            c \in {"", "SUNSET", "EVENING", "Anytime"},
            st \in {NoStart, StartTime("hhmm", 600), StartTime("hhmm", 1410),
                    StartTime("no_colon", 0), StartTime("malformed", 0)},
            r \in {"", "Quieter then"}}

InitTiming ==
    /\ pc = "timing_ready"
    /\ tq \in [poi : {POI(n, c, 45, None, None, 0) :
                        n \in Names, c \in POICategory},
               weather : Weathers, raw : SolarRaws, reply : {ServiceDown}]
    /\ timing = NoTiming
    /\ AllocIdle
    /\ DurationIdle
    /\ PlanIdle
    /\ SequencerIdle
    /\ UnitIdle

GetOptimalVisitTime ==
    /\ pc = "timing_ready"
    /\ \E reply \in ServiceReplies :
          /\ tq' = [tq EXCEPT !.reply = reply]
          /\ timing' = _get_optimal_visit_time(tq.poi, tq.weather, tq.raw, reply)
    /\ pc' = "timing_done"
    /\ UNCHANGED <<pois, num_days, alloc, dq, dur>>
    /\ UNCHANGED plan_vars
    /\ UNCHANGED unit_vars

NextTiming == GetOptimalVisitTime

SpecTiming == InitTiming /\ [][NextTiming]_vars

\* ------------------------------- specification: building and re-optimizing
\* a rated religious venue, attraction and restaurant at latitudes 0, 2, 1
\* (60, 120 and 90 minutes for a couple), and an unrated attraction
PlanPOIs ==
    {POI({}, "religious", 35, None, None, 0),
     POI({}, "attraction", 35, None, None, 2),
     POI({}, "restaurant", 35, None, 3, 1),
     POI({}, "attraction", None, None, None, 0)}

PlanGroups == {"couple", "family"}

\* no tool; a tool whose lookups fail; a tool reporting 40 minutes per degree
MapsTools == {NoMapsTool, MapsTool(TRUE, None), MapsTool(TRUE, 40)}

PlanReplies ==
    {ServiceDown,
     ServiceReply("text", "EVENING", StartTime("hhmm", 1410), "Quieter then")}

PlanSolar == SolarRaw(TRUE, 700)

\* TripRequest rejects end_date <= start_date: a trip has at least 2 days
InitPlan ==
    /\ pc = "plan_ready"
    /\ pois \in BoundedSeq(PlanPOIs, MaxPlanPool)
    /\ trip \in {TripRequest(d, g, 2) : d \in 2..MaxTripDays, g \in PlanGroups}
    /\ weather_data \in {<<>>, <<WeatherInfo(31)>>}
    /\ maps_tool \in MapsTools
    /\ env = NoEnv
    /\ response = NoResponse
    /\ itinerary = NoItinerary
    /\ input = NoInput
    /\ day_result = NoDayResult
    /\ SequencerIdle
    /\ num_days = 1
    /\ alloc = NoAlloc
    /\ DurationIdle
    /\ TimingIdle
    /\ UnitIdle

CreateItinerary ==
    /\ pc = "plan_ready"
    /\ \E replies \in [1..Len(pois) -> PlanReplies] :
          /\ env' = [raw |-> PlanSolar, replies |-> replies]
          /\ \E r \in {create_itinerary(trip, pois, weather_data, maps_tool, env')} :
                /\ response' = r.response
                /\ alloc' = r.alloc
                /\ itinerary' = r.response.itinerary
                /\ pc' = IF r.response.success THEN "created" ELSE "create_failed"
    /\ UNCHANGED <<pois, num_days, dq, dur, tq, timing, trip, weather_data,
                   maps_tool, input, day_result, sequencer>>
    /\ UNCHANGED unit_vars

\* a re-optimization pass on the current itinerary (the one created, or the
\* result of the pass before); the orchestrator calls optimize_itinerary
\* only when it holds a maps tool
OptimizeItinerary ==
    /\ pc \in {"created", "optimized"}
    /\ maps_tool.present
    /\ itinerary.version < MaxVersion
    /\ response' = optimize_itinerary(pois, itinerary, maps_tool)
    /\ input' = [before |-> itinerary,
                 after |-> input_after_optimize(pois, itinerary, maps_tool)]
    /\ itinerary' = IF response'.success THEN response'.itinerary ELSE itinerary
    /\ pc' = "optimized"
    /\ UNCHANGED <<pois, num_days, alloc, dq, dur, tq, timing, trip,
                   weather_data, maps_tool, env, day_result, sequencer>>
    /\ UNCHANGED unit_vars

\* Itinerary(...) constructed directly from any list of day plans, empty
\* days numbered from 1: the value, or the ValueError of validate_days
ConstructItinerary ==
    /\ pc = "plan_ready"
    /\ \E n \in 0..(trip.duration_days + 1) :
       \E days \in {[k \in 1..n |-> DayPlan(k, <<>>, NoWeather)]} :
          attempt' =
              IF validate_days(days, trip)
              THEN [days |-> days, raised |-> FALSE,
                    itinerary |-> Itinerary("itinerary-0", trip, days,
                                            _calculate_total_cost(days), 1)]
              ELSE [days |-> days, raised |-> TRUE, itinerary |-> NoItinerary]
    /\ pc' = IF attempt'.raised THEN "validation_error" ELSE "constructed"
    /\ UNCHANGED <<pois, num_days, alloc, dq, dur, tq, timing, costing, solar,
                   enhancing>>
    /\ UNCHANGED plan_vars

NextPlan == CreateItinerary \/ OptimizeItinerary \/ ConstructItinerary

SpecPlan == InitPlan /\ [][NextPlan]_vars

\* --------------------------------------------------------------- SpecDay
\* _create_day_items on one day of the allocator's result
DayPOIs ==
    { POI({}, "nightlife", 35, None, None, 0),
      POI({}, "attraction", 35, 60, None, 2),
      POI({}, "restaurant", 35, None, 3, 1) }

DayReplies ==
    { ServiceDown,
      ServiceReply("text", "EVENING", StartTime("hhmm", 1410), "Quieter then"),
      ServiceReply("text", "AFTERNOON", StartTime("hhmm", 730), "After the rush") }

InitDay ==
    /\ pc = "day_ready"
    /\ pois \in BoundedSeq(DayPOIs, MaxDayPool)
    /\ trip \in {TripRequest(2, g, 2) : g \in PlanGroups}
    /\ weather_data = <<>>
    /\ maps_tool \in MapsTools
    /\ env = NoEnv
    /\ response = NoResponse
    /\ itinerary = NoItinerary
    /\ input = NoInput
    /\ day_result = NoDayResult
    /\ SequencerIdle
    /\ num_days = 1
    /\ alloc = NoAlloc
    /\ DurationIdle
    /\ TimingIdle
    /\ UnitIdle

CreateDayItems ==
    /\ pc = "day_ready"
    /\ \E replies \in [1..Len(pois) -> DayReplies], day_num \in 1..trip.duration_days :
          /\ env' = [raw |-> PlanSolar, replies |-> replies]
          /\ alloc' = _distribute_pois_across_days(pois, trip.duration_days)
          /\ ~alloc'.raised
          /\ \E day_pois \in {DictGet(alloc'.distributed, day_num - 1, <<>>)} :
             \E r \in {_create_day_items(pois, day_num, day_pois, NoWeather,
                                         trip, maps_tool, env')} :
                day_result' = [day |-> day_num, day_pois |-> day_pois,
                               raised |-> r.raised, items |-> r.items,
                               log |-> r.log]
    /\ pc' = "day_done"
    /\ UNCHANGED <<pois, num_days, dq, dur, tq, timing, trip, weather_data,
                   maps_tool, response, itinerary, input, sequencer>>
    /\ UNCHANGED unit_vars

NextDay == CreateDayItems

SpecDay == InitDay /\ [][NextDay]_vars

\* -------------------------------------------------------------- SpecRoute
\* the route sequencer on a day's items; the POIs lie on one meridian, POI k
\* at latitude coordinates[k]
Coordinates == BoundedSeq(0..MaxCoord, MaxStops)

RoutePOIs(coordinates) ==
    [k \in 1..Len(coordinates) |->
        POI({}, "attraction", 35, None, None, coordinates[k])]

\* a day's items as create_itinerary leaves them, item k visiting POI k
RouteItems(coordinates) ==
    [k \in 1..Len(coordinates) |->
        ItineraryItem(1, k, 540 + 135 * (k - 1), 660 + 135 * (k - 1), 120,
                      NoLeg, 20)]

InitRoute ==
    /\ pc = "route_ready"
    /\ sequencer \in {[coordinates |-> c, route |-> <<>>, items |-> <<>>] :
                         c \in Coordinates}
    /\ pois = <<>>
    /\ num_days = 1
    /\ alloc = NoAlloc
    /\ DurationIdle
    /\ TimingIdle
    /\ PlanIdle
    /\ UnitIdle

OptimizeDailyRoute ==
    /\ pc = "route_ready"
    /\ sequencer' =
          [sequencer EXCEPT
             !.route = _nearest_neighbor_tsp(sequencer.coordinates),
             !.items = _optimize_daily_route(RoutePOIs(sequencer.coordinates),
                                             RouteItems(sequencer.coordinates))]
    /\ pc' = "route_done"
    /\ UNCHANGED <<pois, num_days, alloc, dq, dur, tq, timing, trip,
                   weather_data, maps_tool, env, response, itinerary, input,
                   day_result>>
    /\ UNCHANGED unit_vars

NextRoute == OptimizeDailyRoute

SpecRoute == InitRoute /\ [][NextRoute]_vars

\* --------------------------------------------------------------- SpecCost
\* _estimate_poi_cost on any category, any price level and a party of
\* 1..MaxTravelers
PriceLevels == {None, 1, 2, 3, 4}

InitCost ==
    /\ pc = "cost_ready"
    /\ costing \in [poi : {POI({}, c, 35, None, p, 0) :
                             c \in POICategory, p \in PriceLevels},
                    number_of_travelers : 1..MaxTravelers,
                    cost : {None}]
    /\ solar = NoSolar
    /\ enhancing = NoEnhancing
    /\ attempt = NoAttempt
    /\ OthersIdle

EstimatePOICost ==
    /\ pc = "cost_ready"
    /\ costing' = [costing EXCEPT
                     !.cost = _estimate_poi_cost(costing.poi,
                                                 costing.number_of_travelers)]
    /\ pc' = "cost_done"
    /\ UNCHANGED <<pois, num_days, alloc, dq, dur, tq, timing, solar, enhancing,
                   attempt>>
    /\ UNCHANGED plan_vars

NextCost == EstimatePOICost

SpecCost == InitCost /\ [][NextCost]_vars

\* -------------------------------------------------------------- SpecSolar
\* hour_angle is in [0, 180] degrees, so twice the offset 4 * hour_angle is
\* in [0, 1440]
HalfMinutes == 0..(2 * 4 * 180)

InitSolar ==
    /\ pc = "solar_ready"
    /\ solar \in [raw : {SolarRaw(FALSE, 0)}
                          \cup {SolarRaw(TRUE, h) : h \in HalfMinutes},
                  sun : {NoSun}]
    /\ costing = NoCosting
    /\ enhancing = NoEnhancing
    /\ attempt = NoAttempt
    /\ OthersIdle

CalculateSunriseSunset ==
    /\ pc = "solar_ready"
    /\ solar' = [solar EXCEPT !.sun = _calculate_sunrise_sunset(solar.raw)]
    /\ pc' = "solar_done"
    /\ UNCHANGED <<pois, num_days, alloc, dq, dur, tq, timing, costing,
                   enhancing, attempt>>
    /\ UNCHANGED plan_vars

NextSolar == CalculateSunriseSunset

SpecSolar == InitSolar /\ [][NextSolar]_vars

\* ------------------------------------------------------------ SpecEnhance
\* _enhance_poi_details on a POI with no, a short or a long description,
\* with or without a duration, for any answer of the description service
Descriptions == {NoDescription, Description(TRUE, 0), Description(TRUE, 30),
                 Description(TRUE, 80)}

DescriptionReplies ==
    {DescriptionReply("raises", 0, 0), DescriptionReply("none", 0, 0),
     DescriptionReply("text", 12, 0), DescriptionReply("text", 60, 2)}

Interests == {<<>>, <<{"art", "history"}>>, <<{"food"}, {"nature"}>>}

EnhancePOIs ==
    {FoundPOI(d, c, r, o, p, n, None) :
        d \in Descriptions, c \in {"museum", "restaurant", "nightlife"},
        r \in {None, 25, 45}, o \in {None, 45}, p \in {None, 2},
        n \in {0, 2000}}

InitEnhance ==
    /\ pc = "enhance_ready"
    /\ \E poi \in EnhancePOIs, g \in {"family", "solo"},
          b \in BudgetRange, i \in Interests :
          enhancing = [NoEnhancing EXCEPT
                         !.before = poi, !.poi = poi,
                         !.trip_request = PlaceRequest(g, b, i)]
    /\ costing = NoCosting
    /\ solar = NoSolar
    /\ attempt = NoAttempt
    /\ OthersIdle

EnhancePOIDetails ==
    /\ pc = "enhance_ready"
    /\ \E reply \in DescriptionReplies :
       \E r \in {_enhance_poi_details(enhancing.poi, enhancing.trip_request,
                                      reply)} :
          enhancing' = [enhancing EXCEPT
                          !.reply = reply, !.poi = r.poi,
                          !.returned = r.returned,
                          !.returned_is_argument = r.returned_is_argument]
    /\ pc' = "enhance_done"
    /\ UNCHANGED <<pois, num_days, alloc, dq, dur, tq, timing, costing, solar,
                   attempt>>
    /\ UNCHANGED plan_vars

NextEnhance == EnhancePOIDetails

SpecEnhance == InitEnhance /\ [][NextEnhance]_vars

\* ------------------------------------------------ properties: DayAllocator
\* minutes charged to a day by the first pass: duration plus the 15-minute
\* buffer, the buffer being 0 for the day's first POI
RECURSIVE DayTimeUsed(_, _)
DayTimeUsed(ps, day_list) ==
    IF day_list = <<>> THEN 0
    ELSE DayTimeUsed(ps, SubSeq(day_list, 1, Len(day_list) - 1))
         + poi_duration(ps[day_list[Len(day_list)]], "couple")
         + (IF Len(day_list) > 1 THEN 15 ELSE 0)

\* how often pool position i occurs in the lists of dict d
Occurrences(d, i) ==
    SumSeq([k \in 1..Cardinality(DOMAIN d) |->
              Cardinality({j \in 1..Len(d[k - 1]) : d[k - 1][j] = i})])

Assigned(d) ==
    SumSeq([k \in 1..Cardinality(DOMAIN d) |-> Len(d[k - 1])])

\* C1: once the allocator has returned, every POI of the pool is in exactly
\* one day's list, so the per-day counts sum to the pool size.
C1_AllocPartitionsPool ==
    pc = "alloc_done" =>
        /\ \A i \in 1..Len(pois) : Occurrences(alloc.distributed, i) = 1
        /\ Assigned(alloc.distributed) = Len(pois)

\* C3: after the first pass and the leftover pass no day holds more than 6
\* POIs.
C3_AtMostSixPerDay ==
    pc = "alloc_done" =>
        \A d \in DOMAIN alloc.distributed : Len(alloc.distributed[d]) <= 6

\* a day was closed at 6 POIs while the pool still held another one
C3_Witness ==
    /\ pc = "alloc_done"
    /\ Len(pois) >= 7
    /\ \E d \in DOMAIN alloc.first :
          /\ Len(alloc.first[d]) = 6
          /\ Len(alloc.distributed[d]) = 6

\* C4: at the end of the first pass every day's charged minutes (durations
\* plus buffers) stay within 300, and so does every prefix of the day's list:
\* a POI was taken only when it fitted what was left of the budget.
C4_FirstPassWithinBudget ==
    \A d \in DOMAIN alloc.first :
        \A k \in 1..Len(alloc.first[d]) :
            DayTimeUsed(pois, SubSeq(alloc.first[d], 1, k)) <= 300

\* a day filled to exactly 300 minutes while a POI was turned away
C4_Witness ==
    /\ pc = "alloc_done"
    /\ alloc.remaining # <<>>
    /\ \E d \in DOMAIN alloc.first :
          DayTimeUsed(pois, alloc.first[d]) = 300

\* what the leftover pass appended to day d
LeftoverOf(d) ==
    SubSeq(alloc.distributed[d], Len(alloc.first[d]) + 1,
           Len(alloc.distributed[d]))

RECURSIVE LeftoversUpTo(_)
LeftoversUpTo(d) ==
    IF d < 0 THEN <<>> ELSE LeftoversUpTo(d - 1) \o LeftoverOf(d)

DocumentedRatingFactor(rating) ==
    IF rating = None THEN 10
    ELSE IF rating >= 45 THEN 12
    ELSE IF rating >= 40 THEN 11
    ELSE IF rating < 30 THEN 8
    ELSE 10

\* C8: for a POI without a duration override, whatever its rating (absent
\* included), the duration returned is a positive integer, the integer part
\* of base duration x group-type factor x rating factor.
C8_DurationPositiveProduct ==
    (pc = "duration_done" /\ ~Truthy(dq.poi.estimated_visit_duration)) =>
        /\ dur \in Nat \ {0}
        /\ dur = (base_durations(dq.poi.category)
                    * group_multipliers(dq.group_type)
                    * DocumentedRatingFactor(dq.poi.rating)) \div 100

\* ---------------------------------------------- properties: timing policy
RuleBasedFor(q) ==
    LET sun == _calculate_sunrise_sunset(q.raw)
    IN  _get_rule_based_timing(q.poi, q.weather, sun.sunrise, sun.sunset)

LacksALine(reply) ==
    \/ reply.time_category = ""
    \/ reply.start_time.kind = "absent"
    \/ reply.reasoning = ""

\* C9: a non-empty reply that lacks one of the three labelled lines, or that
\* cannot be parsed, yields exactly the rule-based timing.
C9_IncompleteReplyFallsBack ==
    (/\ pc = "timing_done"
     /\ tq.reply.outcome = "text"
     /\ (LacksALine(tq.reply) \/ tq.reply.start_time.kind = "malformed"))
        => timing = RuleBasedFor(tq)

\* C10: when the service call raises, times out or returns nothing, the
\* timing returned is exactly the rule-based one.
C10_ServiceFailureFallsBack ==
    (pc = "timing_done" /\ tq.reply.outcome \in {"raises", "none", "blank"})
        => timing = RuleBasedFor(tq)

\* the service raised for a sunset beach on a day whose sunset is not the
\* default one
C10_Witness ==
    /\ pc = "timing_done"
    /\ tq.reply.outcome = "raises"
    /\ tq.poi.category = "beach"
    /\ timing.time_category = "SUNSET"
    /\ timing.start_minutes # 1110 - 60

\* ------------------------------------------- properties: schedule builder
\* pool positions the allocator assigned to 1-based day d
AssignedTo(d) == DictGet(alloc.distributed, d - 1, <<>>)

ItemPOIs(items) == {items[k].poi : k \in 1..Len(items)}

\* the running clock after the last item of a day: its end time plus the travel
\* time to the POI that would follow it
ClockAfterLast(items) ==
    LET last == items[Len(items)]
    IN  last.end_time
          + (IF ~maps_tool.present THEN 0
             ELSE IF last.transport_to_next.present
                  THEN last.transport_to_next.duration_minutes ELSE 15)

\* C2 as stated: every POI assigned to a day is exactly one item of that
\* day's DayPlan, so the item counts sum to the number of assigned POIs.
C2_EveryAssignedPOIScheduled ==
    pc = "created" =>
        \A d \in 1..Len(itinerary.days) :
            LET items == itinerary.days[d].items
            IN  /\ Len(items) = Len(AssignedTo(d))
                /\ ItemPOIs(items) = Range(AssignedTo(d))

\* C2 (amended): every item of a day's DayPlan is a distinct POI the
\* allocator assigned to that day; assigned POIs are left out only when the
\* day's schedule stopped at the 23:00 cutoff, that is when the last item is
\* not nightlife and the clock after it is past 23:00.
C2_ScheduledUpToCutoff ==
    pc = "created" =>
        \A d \in 1..Len(itinerary.days) :
            LET items == itinerary.days[d].items
            IN  /\ ItemPOIs(items) \subseteq Range(AssignedTo(d))
                /\ Cardinality(ItemPOIs(items)) = Len(items)
                /\ Len(items) <= Len(AssignedTo(d))
                /\ Len(items) < Len(AssignedTo(d))
                      => /\ items # <<>>
                         /\ pois[items[Len(items)].poi].category # "nightlife"
                         /\ ClockAfterLast(items) > 23 * 60

\* a day whose schedule stopped at the cutoff with an assigned POI left out,
\* next to a day that holds every POI assigned to it
C2_Witness ==
    /\ pc = "created"
    /\ \E d \in 1..Len(itinerary.days) :
          /\ itinerary.days[d].items # <<>>
          /\ Len(itinerary.days[d].items) < Len(AssignedTo(d))
    /\ \E d \in 1..Len(itinerary.days) :
          /\ itinerary.days[d].items # <<>>
          /\ Len(itinerary.days[d].items) = Len(AssignedTo(d))

\* C6: with an empty pool create_itinerary succeeds and yields one DayPlan per
\* trip day, each with no items and zero cost.
C6_EmptyPoolSucceeds ==
    (pc \in {"created", "create_failed"} /\ pois = <<>>) =>
        /\ response.success
        /\ pc = "created"
        /\ Len(itinerary.days) = trip.duration_days
        /\ \A d \in 1..Len(itinerary.days) :
              /\ itinerary.days[d].day = d
              /\ itinerary.days[d].items = <<>>
              /\ itinerary.days[d].total_estimated_cost = 0
        /\ itinerary.total_cost = 0

C6_Witness ==
    /\ pc = "created"
    /\ pois = <<>>
    /\ alloc.distributed = EmptyDict
    /\ Len(itinerary.days) >= 2

\* C7: in every DayPlan of an itinerary produced by create_itinerary or by
\* optimize_itinerary the items are in non-decreasing order of start time.
C7_ItemsInStartOrder ==
    pc \in {"created", "optimized"} =>
        \A d \in 1..Len(itinerary.days) :
            LET items == itinerary.days[d].items
            IN  \A k \in 1..(Len(items) - 1) :
                    items[k].start_time <= items[k + 1].start_time

\* ------------------------------------------ properties: external services
\* during the build the suggestion service never gave a usable reply and the
\* transport lookup (if there is a maps tool at all) gives no route
ServicesFailed ==
    /\ \A p \in 1..Len(pois) : env.replies[p].outcome # "text"
    /\ ~maps_tool.present \/ maps_tool.minutes_per_degree = None

\* C11: when the suggestion service and the transport service fail or return
\* nothing, create_itinerary still returns a successful response with one
\* DayPlan per trip day, whatever the pool of valid POIs.
C11_ServiceFailureNeverFailsBuild ==
    (pc \in {"created", "create_failed"} /\ ServicesFailed) =>
        /\ response.success
        /\ Len(response.itinerary.days) = trip.duration_days

\* --------------------------------------------- properties: re-optimization
\* C12: a re-optimization pass succeeds and returns an itinerary with the
\* input's identifier and the input's version plus one; over any sequence of
\* passes the version of the current itinerary never decreases.
C12_VersionGrowsByOne ==
    [][/\ OptimizeItinerary =>
            /\ response'.success
            /\ response'.itinerary.id = itinerary.id
            /\ response'.itinerary.version = itinerary.version + 1
            /\ itinerary' = response'.itinerary
       /\ pc \in {"created", "optimized"} =>
            itinerary'.version >= itinerary.version]_vars

\* two passes have run on a created itinerary
C12_Witness ==
    /\ pc = "optimized"
    /\ itinerary.id = "itinerary-1"
    /\ itinerary.version = 3
    /\ response.success

ClockAfter(k) ==
    day_result.items[k].end_time + day_result.log[k].travel_time

CategoryOfItem(k) == pois[day_result.items[k].poi].category

\* C14: once the running clock exceeds 23:00, no further item is added to
\* the day unless that item is nightlife.
C14_NoItemPastCutoffUnlessNightlife ==
    pc = "day_done" =>
        \A k \in 2..Len(day_result.items) :
            ClockAfter(k - 1) > 23 * 60 => CategoryOfItem(k) = "nightlife"

\* C15: an item that has a next POI in the day and got no TransportLeg
\* (no maps tool, a failed lookup, or no route) advances the clock by a
\* 15-minute placeholder after its end and carries no transport cost.
C15_PlaceholderGapWithoutLeg ==
    pc = "day_done" =>
        \A k \in 1..Len(day_result.items) :
            (k < Len(day_result.day_pois)
               /\ ~day_result.items[k].transport_to_next.present)
            => /\ day_result.log[k].travel_time = 15
               /\ day_result.items[k].transport_to_next.cost = 0

\* the start the rule gives item k from the time `after` which it may begin
StartByRule(k, after) ==
    LET preferred == day_result.log[k].optimal_start
    IN  IF k = 1 THEN preferred
        ELSE IF preferred > after + 15 + 120 THEN preferred
        ELSE IF preferred >= after + 15 THEN preferred ELSE after + 15

PreviousEnd(k) == IF k = 1 THEN 0 ELSE day_result.items[k - 1].end_time

PreviousClock(k) == IF k = 1 THEN 0 ELSE ClockAfter(k - 1)

\* C16 as stated: before the lunch adjustment the first item starts at its
\* preferred start, a later item at its preferred start when that exceeds
\* (previous end + 15) by more than 120, else at max(preferred start,
\* previous end + 15).
C16_StartFromPreviousEnd ==
    pc = "day_done" =>
        \A k \in 1..Len(day_result.items) :
            day_result.log[k].start_before_lunch = StartByRule(k, PreviousEnd(k))

\* C16 (amended): the same rule with the running clock, that is the previous
\* item's end plus the travel time from it, in the place of the previous end.
C16_StartFromRunningClock ==
    pc = "day_done" =>
        \A k \in 1..Len(day_result.items) :
            day_result.log[k].start_before_lunch = StartByRule(k, PreviousClock(k))

\* a day where travel time counts: one item waits for its preferred start,
\* another starts 15 minutes after the clock, later than 15 minutes after
\* the previous end
C16_Witness ==
    /\ pc = "day_done"
    /\ \E k \in 2..Len(day_result.items) :
          /\ day_result.log[k].optimal_start > PreviousClock(k) + 135
          /\ day_result.log[k].start_before_lunch = day_result.log[k].optimal_start
    /\ \E k \in 2..Len(day_result.items) :
          /\ day_result.log[k - 1].travel_time > 0
          /\ day_result.log[k].optimal_start < PreviousClock(k) + 15
          /\ day_result.log[k].start_before_lunch = PreviousClock(k) + 15

LunchAdjusted == {k \in 1..Len(day_result.items) : day_result.log[k].lunch}

\* the running clock is before 12:00 when item k, not a restaurant, is about
\* to start at or after 12:00
CrossesNoon(k) ==
    /\ k >= 2
    /\ ClockAfter(k - 1) < 12 * 60
    /\ day_result.log[k].start_before_lunch >= 12 * 60
    /\ CategoryOfItem(k) # "restaurant"

\* C17: within a day the lunch adjustment is applied at most once, to the
\* first non-restaurant item before which the clock crosses 12:00; that item
\* starts no earlier than 13:00 and every other item starts where the start
\* rule put it.
C17_LunchAdjustedOnce ==
    pc = "day_done" =>
        /\ Cardinality(LunchAdjusted) <= 1
        /\ \A k \in 1..Len(day_result.items) :
              /\ k \in LunchAdjusted
                    <=> (CrossesNoon(k) /\ \A j \in 1..(k - 1) : ~CrossesNoon(j))
              /\ k \in LunchAdjusted
                    => /\ day_result.items[k].start_time >= 13 * 60
                       /\ day_result.items[k].start_time
                            >= day_result.log[k].start_before_lunch
              /\ k \notin LunchAdjusted
                    => day_result.items[k].start_time
                         = day_result.log[k].start_before_lunch

\* an item was pushed from 12:10 to 13:00 and an item follows it
C17_Witness ==
    /\ pc = "day_done"
    /\ \E k \in LunchAdjusted :
          /\ day_result.log[k].start_before_lunch < 13 * 60
          /\ day_result.items[k].start_time = 13 * 60
          /\ k < Len(day_result.items)
          /\ day_result.log[k + 1].start_before_lunch >= 12 * 60

\* ------------------------------------------- properties: route sequencer
\* C18: the route returned for n coordinates has length n and holds every
\* index exactly once (index k here is the code's k - 1).
C18_RouteIsPermutation ==
    pc = "route_done" =>
        /\ Len(sequencer.route) = Len(sequencer.coordinates)
        /\ Range(sequencer.route) = 1..Len(sequencer.coordinates)

C18_Witness ==
    /\ pc = "route_done"
    /\ Len(sequencer.coordinates) = MaxStops
    /\ sequencer.route # [k \in 1..MaxStops |-> k]

\* the stops not yet in the route when its k-th element is chosen
UnvisitedAt(k) ==
    (1..Len(sequencer.coordinates)) \ {sequencer.route[j] : j \in 1..(k - 1)}

GeoDistance(a, b) ==
    IF sequencer.coordinates[a] >= sequencer.coordinates[b]
    THEN sequencer.coordinates[a] - sequencer.coordinates[b]
    ELSE sequencer.coordinates[b] - sequencer.coordinates[a]

\* C19: for more than 2 stops the route starts at the first stop and each
\* following element is the unvisited stop nearest to the element before it,
\* the lowest index among equally near ones; the day's items follow the route.
C19_NearestNeighbourLowestIndex ==
    (pc = "route_done" /\ Len(sequencer.coordinates) > 2) =>
        /\ sequencer.route[1] = 1
        /\ \A k \in 2..Len(sequencer.route) :
              LET here == sequencer.route[k - 1]
                  next == sequencer.route[k]
              IN  /\ next \in UnvisitedAt(k)
                  /\ \A y \in UnvisitedAt(k) :
                        /\ GeoDistance(here, next) <= GeoDistance(here, y)
                        /\ GeoDistance(here, next) = GeoDistance(here, y)
                              => next <= y
        /\ Len(sequencer.items) = Len(sequencer.route)
        /\ \A k \in 1..Len(sequencer.route) :
              sequencer.items[k].poi = sequencer.route[k]

\* two unvisited stops were equally near, and the route is not the input order
C19_Witness ==
    /\ pc = "route_done"
    /\ Len(sequencer.coordinates) > 2
    /\ \E k \in 2..Len(sequencer.route) :
          \E y \in UnvisitedAt(k) :
              /\ y # sequencer.route[k]
              /\ GeoDistance(sequencer.route[k - 1], y)
                    = GeoDistance(sequencer.route[k - 1], sequencer.route[k])
    /\ \E k \in 1..Len(sequencer.route) : sequencer.route[k] # k

\* C20: a day list of 1 or 2 items is returned in its input order.
C20_IdentityUpToTwo ==
    (pc = "route_done" /\ Len(sequencer.coordinates) \in {1, 2}) =>
        /\ sequencer.items = RouteItems(sequencer.coordinates)
        /\ sequencer.route = [k \in 1..Len(sequencer.coordinates) |-> k]

\* two items, the second one not where the first is
C20_Witness ==
    /\ pc = "route_done"
    /\ Len(sequencer.items) = 2
    /\ sequencer.coordinates[1] # sequencer.coordinates[2]

\* ------------------------------------------------- properties: CostEstimator
\* the sum of f[k] over k in 1..n
RECURSIVE SumUpTo(_, _)
SumUpTo(f, n) == IF n = 0 THEN 0 ELSE SumUpTo(f, n - 1) + f[n]

ItemCostsOf(day_plan) ==
    SumUpTo([k \in 1..Len(day_plan.items) |-> day_plan.items[k].cost_estimate],
            Len(day_plan.items))

\* C21: in every itinerary produced by create_itinerary or optimize_itinerary
\* each day's total is the sum of its items' cost estimates and the trip
\* total is the sum of the days' totals.
C21_TotalsAreSums ==
    (pc \in {"created", "optimized"}) =>
        /\ \A d \in 1..Len(itinerary.days) :
              itinerary.days[d].total_estimated_cost
                = ItemCostsOf(itinerary.days[d])
        /\ itinerary.total_cost
             = SumUpTo([d \in 1..Len(itinerary.days) |->
                           itinerary.days[d].total_estimated_cost],
                       Len(itinerary.days))

\* a re-optimized itinerary with two days that cost something, one of them
\* with several items
C21_Witness ==
    /\ pc = "optimized"
    /\ \E d, e \in 1..Len(itinerary.days) :
          /\ d # e
          /\ Len(itinerary.days[d].items) >= 2
          /\ itinerary.days[d].total_estimated_cost > 0
          /\ itinerary.days[e].total_estimated_cost > 0
          /\ itinerary.total_cost > itinerary.days[d].total_estimated_cost

\* ------------------------------------------------- properties: CostEstimator
\* the documented 4-tier table, tier 1 first
TierTable ==
    [restaurant |-> <<15, 30, 50, 80>>, attraction |-> <<10, 20, 35, 60>>,
     museum |-> <<8, 15, 25, 40>>, park |-> <<0, 5, 10, 20>>,
     shopping |-> <<20, 50, 100, 200>>, nightlife |-> <<15, 30, 60, 100>>,
     accommodation |-> <<50, 100, 200, 400>>, transport |-> <<2, 5, 15, 30>>,
     entertainment |-> <<10, 25, 45, 80>>, religious |-> <<0, 5, 10, 20>>,
     beach |-> <<0, 10, 20, 40>>, adventure |-> <<20, 40, 80, 150>>]

DefaultTiers == <<10, 20, 35, 60>>

TierEntry(poi) ==
    LET tiers == IF poi.category \in DOMAIN TierTable
                 THEN TierTable[poi.category] ELSE DefaultTiers
    IN  tiers[IF poi.price_level = None THEN 2 ELSE poi.price_level]

ScalesWithParty == {"restaurant", "entertainment", "accommodation"}

\* C22: the cost of a POI is the entry of its category's table at the POI's
\* price level (tier 2 when the price level is absent, the default table for
\* a category outside the table), times the traveler count exactly when the
\* category is restaurant, entertainment or accommodation, flat otherwise.
C22_CostIsTierEntry ==
    pc = "cost_done" =>
        costing.cost =
            IF costing.poi.category \in ScalesWithParty
            THEN TierEntry(costing.poi) * costing.number_of_travelers
            ELSE TierEntry(costing.poi)

C22_Witness ==
    /\ pc = "cost_done"
    /\ costing.poi.category = "museum"
    /\ costing.poi.price_level = None
    /\ costing.number_of_travelers = MaxTravelers
    /\ costing.cost = 15

\* ------------------------------------------------------ properties: days
ItineraryOf(state) ==
    IF state = "constructed" THEN attempt.itinerary ELSE itinerary

\* C23: every itinerary produced by create_itinerary or optimize_itinerary
\* has as many DayPlans as the trip has days, the DayPlan at position k has
\* day number k and each of its items has day k; constructing an Itinerary
\* from a number of days other than the trip's duration raises a validation
\* error (and from that number of days it does not).
C23_DaysMatchTrip ==
    /\ pc \in {"created", "optimized", "constructed"} =>
          /\ Len(ItineraryOf(pc).days) = trip.duration_days
          /\ \A k \in 1..Len(ItineraryOf(pc).days) :
                /\ ItineraryOf(pc).days[k].day = k
                /\ \A i \in 1..Len(ItineraryOf(pc).days[k].items) :
                      ItineraryOf(pc).days[k].items[i].day = k
    /\ pc \in {"constructed", "validation_error"} =>
          (attempt.raised <=> Len(attempt.days) # trip.duration_days)

\* a re-optimized itinerary with items on its last day
C23_Witness ==
    /\ pc = "optimized"
    /\ Len(itinerary.days) = MaxTripDays
    /\ Len(itinerary.days[1].items) >= 2
    /\ Len(itinerary.days[MaxTripDays].items) >= 1

\* ---------------------------------------- properties: SolarTimeEstimator
\* C24: the solar-time estimate returns sunrise within [300, 420] and sunset
\* within [1020, 1200] minutes from midnight whatever the raw values are, and
\* (390, 1110) when the computation fails numerically.
C24_SolarWithinRanges ==
    pc = "solar_done" =>
        /\ solar.sun.sunrise \in 300..420
        /\ solar.sun.sunset \in 1020..1200
        /\ ~solar.raw.ok => solar.sun = [sunrise |-> 390, sunset |-> 1110]

\* a polar day: the raw sunrise is 00:30 and the raw sunset 23:30
C24_Witness ==
    /\ pc = "solar_done"
    /\ solar.raw = SolarRaw(TRUE, 1380)
    /\ solar.sun = [sunrise |-> 300, sunset |-> 1200]

\* ------------------------------------------ properties: VisitTimingPolicy
DocumentedTimeCategories ==
    {"SUNRISE", "EARLY_MORNING", "MORNING", "AFTERNOON", "SUNSET", "EVENING",
     "NIGHT"}

\* C25: the time category returned by the timing policy, on the
\* suggestion-service path as well as on the fallback path, is one of
\* SUNRISE, EARLY_MORNING, MORNING, AFTERNOON, SUNSET, EVENING, NIGHT.
C25_TimeCategoryInEnumeration ==
    pc = "timing_done" => timing.time_category \in DocumentedTimeCategories

OnFallbackPath == tq.reply.outcome \in {"raises", "none", "blank"}

SunOf(q) == _calculate_sunrise_sunset(q.raw)

HotDay(weather) == weather.present /\ weather.temperature_high > 30

\* C26: on the fallback path a religious venue gets (EARLY_MORNING, 06:00),
\* a museum (MORNING, 10:00), a restaurant (EVENING, 19:00) unless its name
\* contains 'breakfast' or 'lunch', a shopping POI EVENING when the forecast
\* high exceeds 30 degrees and AFTERNOON otherwise; a beach or park whose
\* name contains 'sunrise' gets (SUNRISE, sunrise - 30) and one whose name
\* contains 'sunset' (and not 'sunrise') gets (SUNSET, sunset - 60), whatever
\* the category default would be.
C26_RuleTable ==
    (pc = "timing_done" /\ OnFallbackPath) =>
        /\ tq.poi.category = "religious" =>
              /\ timing.time_category = "EARLY_MORNING"
              /\ timing.start_minutes = 6 * 60
        /\ tq.poi.category = "museum" =>
              /\ timing.time_category = "MORNING"
              /\ timing.start_minutes = 10 * 60
        /\ (tq.poi.category = "restaurant"
              /\ tq.poi.name \cap {"breakfast", "lunch"} = {}) =>
              /\ timing.time_category = "EVENING"
              /\ timing.start_minutes = 19 * 60
        /\ tq.poi.category = "shopping" =>
              timing.time_category =
                  IF HotDay(tq.weather) THEN "EVENING" ELSE "AFTERNOON"
        /\ (tq.poi.category \in {"beach", "park"}
              /\ "sunrise" \in tq.poi.name) =>
              /\ timing.time_category = "SUNRISE"
              /\ timing.start_minutes = SunOf(tq).sunrise - 30
        /\ (tq.poi.category \in {"beach", "park"}
              /\ "sunset" \in tq.poi.name /\ "sunrise" \notin tq.poi.name) =>
              /\ timing.time_category = "SUNSET"
              /\ timing.start_minutes = SunOf(tq).sunset - 60

\* a park named after its sunset, the service down, sunset at 17:50
C26_Witness ==
    /\ pc = "timing_done"
    /\ tq.reply = ServiceDown
    /\ tq.poi.category = "park"
    /\ tq.poi.name = {"sunset"}
    /\ tq.raw = SolarRaw(TRUE, 700)
    /\ timing.time_category = "SUNSET"
    /\ timing.start_minutes = 1010

\* ------------------------------------------------ properties: enhancement
\* C27: _enhance_poi_details does not modify the POI it is given: the
\* argument's description, estimated visit duration and popularity score are
\* after the call what they were before it, and the value returned is another
\* POI value, not the argument.
C27_ArgumentNotModified ==
    pc = "enhance_done" =>
        /\ enhancing.poi.description = enhancing.before.description
        /\ enhancing.poi.estimated_visit_duration
              = enhancing.before.estimated_visit_duration
        /\ enhancing.poi.popularity_score = enhancing.before.popularity_score
        /\ ~enhancing.returned_is_argument

\* ------------------------------------ properties: one day's time windows
\* C28: in a day built by _create_day_items every item after the first
\* starts no earlier than the previous item's end plus the travel time from
\* it plus the 15-minute buffer; the items' time windows do not overlap and
\* their start times strictly increase.
C28_WindowsDoNotOverlap ==
    pc = "day_done" =>
        \A k \in 2..Len(day_result.items) :
            /\ day_result.items[k].start_time
                  >= day_result.items[k - 1].end_time
                       + day_result.log[k - 1].travel_time + 15
            /\ day_result.items[k].start_time >= day_result.items[k - 1].end_time
            /\ day_result.items[k].start_time > day_result.items[k - 1].start_time

\* three items; one follows a 40-minute leg at exactly end + 40 + 15
C28_Witness ==
    /\ pc = "day_done"
    /\ Len(day_result.items) = 3
    /\ \E k \in 2..3 :
          /\ day_result.log[k - 1].travel_time = 40
          /\ day_result.items[k].start_time
                = day_result.items[k - 1].end_time + 55

\* the minutes the allocator charged for the POI of item k of the day
ChargedDuration(k) == poi_duration(pois[day_result.items[k].poi], "couple")

ScheduledMinutes ==
    SumUpTo([k \in 1..Len(day_result.items) |->
                day_result.items[k].estimated_duration],
            Len(day_result.items))
      + buffer_minutes * (Len(day_result.items) - 1)

FilledByFirstPass ==
    /\ day_result.items # <<>>
    /\ day_result.day_pois = DictGet(alloc.first, day_result.day - 1, <<>>)

\* C29: the duration charged against the daily budget when a POI is allocated
\* equals the duration with which it is scheduled, for every group type, so
\* the scheduled durations plus buffers of a day filled by the first pass
\* never exceed the 300-minute budget.
C29_ChargedEqualsScheduled ==
    pc = "day_done" =>
        /\ \A k \in 1..Len(day_result.items) :
              day_result.items[k].estimated_duration = ChargedDuration(k)
        /\ FilledByFirstPass => ScheduledMinutes <= available_time

\* --------------------------------- properties: what re-optimization keeps
\* an item without its transport leg
Visit(item) == [item EXCEPT !.transport_to_next = NoLeg]

\* how many items of the list are the visit v
CountOf(items, v) == Cardinality({k \in 1..Len(items) : Visit(items[k]) = v})

SameVisits(old, new) ==
    /\ Len(new) = Len(old)
    /\ \A k \in 1..Len(old) :
          CountOf(new, Visit(old[k])) = CountOf(old, Visit(old[k]))

\* C30: optimize_itinerary keeps, for every day, the multiset of POIs with
\* each item's cost estimate and duration (only the order of the items and
\* their transport legs may change), hence each day's total cost and the
\* trip total; a day with at most one item is returned as it was.
C30_OptimizeKeepsVisitsAndCosts ==
    pc = "optimized" =>
        /\ Len(response.itinerary.days) = Len(input.before.days)
        /\ \A d \in 1..Len(input.before.days) :
              /\ SameVisits(input.before.days[d].items,
                            response.itinerary.days[d].items)
              /\ response.itinerary.days[d].total_estimated_cost
                    = input.before.days[d].total_estimated_cost
              /\ Len(input.before.days[d].items) <= 1 =>
                    response.itinerary.days[d] = input.before.days[d]
        /\ response.itinerary.total_cost = input.before.total_cost

\* a pass that reordered a day of three items at a cost, next to a day of
\* at most one item
C30_Witness ==
    /\ pc = "optimized"
    /\ input.before.total_cost > 0
    /\ \E d, e \in 1..Len(input.before.days) :
          /\ Len(input.before.days[d].items) >= 3
          /\ Len(input.before.days[e].items) <= 1
          /\ \E k \in 1..Len(input.before.days[d].items) :
                response.itinerary.days[d].items[k]
                    # input.before.days[d].items[k]

====
